---- MODULE Spec2Model ----
(***************************************************************************)
(* Model of src/src/main.js (WebGL PBR model performance tool).            *)
(*                                                                         *)
(* The file holds two revisions of the program one after the other; the    *)
(* model follows the first one (lines 1-1065), which is the larger         *)
(* revision (selection scope, pointer picking).         Where the second   *)
(* revision (lines 1066-1840) has the same code the line numbers of both   *)
(* are given in the comments.                                              *)
(*                                                                         *)
(* Everything runs on the single JavaScript thread: every action below is  *)
(* one whole event handler or timer callback.                              *)
(*                                                                         *)
(* Object identity.  A model object is a small positive integer, a mesh is *)
(* <<object, position in the object's traversal>>, and a geometry is       *)
(* [mesh, kind, n]: the mesh it was made for, how it was made ("loaded" by *)
(* the loader, "clone" by geometry.clone() at load, "simp" by the          *)
(* simplifier) and a serial number.  Within one handler a new object gets  *)
(* an identifier no object of the state before the handler has.  When the  *)
(* handler is done, objects that nothing references any more are dropped   *)
(* (garbage) and the serial numbers of the simplifier's geometries are     *)
(* renumbered from 0, so that states that differ only in the names of      *)
(* their objects are one state.  The log of a pass (lastPass) keeps the    *)
(* identifiers the handler itself used.                                    *)
(***************************************************************************)
EXTENDS Integers, Sequences, FiniteSets, TLC

\* ------------------------------------------------------------------ bounds
\* Models loaded, and meshes registered, at the same time (Spec).
MaxModels == 1
MaxMeshes == 2
\* Models loaded at the same time in the runs with several models (SpecScene).
SceneModels == 2
\* Models, copies included, in the runs that duplicate models (SpecDuplicate).
CopyModels == 2
\* Models for the runs that follow the debounce timer tick by tick (SpecDebounce).
BurstModels == 1
\* Granularity of the clock, in milliseconds.
TickMs == 50
\* Timers pending at the same time (the program keeps at most one).
MaxPending == 3
\* GPU timer queries in the queue at the same time (SpecTelemetry).
MaxQueries == 5
\* The queue length a bounded queue is held to in the runs.
QueueLimit == 4
\* The polls after which a lost query is held to be abandoned in the runs.
PollLimit == 2
\* Frames counted since the last aggregation up to which a render may fail.
MaxThrowFrames == 2
\* Rounds of chart updates (SpecCharts).
MaxUpdates == 2

\* -------------------------------------------------------- program constants
\* setTimeout(..., 150)                                  main.js:963 (1737)
Debounce == 150

\* if (now - lastTime >= 500)                           main.js:1026 (1798)
AggregateMs == 500

\* PerfChart: this.data = new Array(60).fill(0)          main.js:15
ChartPoints == 60

\* Slider positions (percent) the user can choose; reduceRatio = value / 100.
Percents == {0, 10, 50, 100}
\* Vertex counts of the meshes of a loaded file, one entry per mesh.
Shapes == { <<4>>, <<4, 12>> }
\* The same for the runs with single-mesh models (SpecDebounce, SpecScene).
BurstPercents == {0, 50}
BurstShapes == { <<4>> }
\* Milliseconds between two calls of animate, CPU milliseconds of a frame and
\* the nanoseconds a timer query reports (QUERY_RESULT; whole milliseconds).
FrameGaps == {250, 500}
\* The same for the runs with the charts.
ChartGaps == {300, 500}
CpuTimes == {1, 2}
GpuNanos == {3000000}
\* Windows under way when a run starts: frames counted and milliseconds
\* since lastTime.
FastWindows == { [frames |-> 2, ms |-> 200], [frames |-> 99, ms |-> 200] }
\* The CPU time of every frame in the runs of the loop without charts.
LoopCpuTimes == {1}
\* renderer.info.render.calls and .triangles of a frame.
DrawCalls == {1}
Triangles == {12}
\* File names of loaded models.
ModelNames == {"a"}

VARIABLES
  loadedModels,        \* main.js:180  sequence of [name, object]
  originalMeshes,      \* main.js:181  sequence of [mesh, geometry]
  objMeshes,           \* object -> sequence of its mesh nodes (traverse order)
  meshGeometry,        \* mesh -> mesh.geometry (the displayed geometry)
  geomVerts,           \* geometry -> geometry.attributes.position.count
  selectedModelIndex,  \* main.js:186
  scope,               \* checked radio of input[name="simp-scope"]
  sliderValue,         \* value of #simp-slider
  simplifyTimeout,     \* main.js:895  handle of the last timer set, 0 = undefined
  timers,              \* pending setTimeout callbacks of applySimplification
  lastPass,            \* history: what the last timer callback did (reset by any other step)
  burst,               \* history: the current burst of applySimplification calls
  available,           \* main.js:140  GPUTimer.available
  queries,             \* main.js:139  GPUTimer.queries, oldest first (NewQuery)
  activeQuery,         \* GL context: a TIME_ELAPSED query is active (begun, not ended)
  charts,              \* main.js:182  the PerfChart objects
  window,              \* history: calls of animate, CPU times and frames rendered since lastTime
  lastFrame,           \* history: what the last call of animate did (reset by any other step)
  frameCount,          \* main.js:184
  elapsed,             \* `now` of the last animate call minus lastTime (main.js:183)
  unlockFPS,           \* main.js:192  params.unlockFPS
  nextFrame,           \* the calls of animate that are scheduled, oldest first,
                       \* each by how it was scheduled
  readout,             \* what the last aggregation wrote to the panel
  isAltDown,           \* main.js:189
  controlsEnabled,     \* controls.enabled of the OrbitControls (main.js:242)
  altHeld              \* the keyboard: the Alt key is down

sceneVars == <<loadedModels, originalMeshes, objMeshes, meshGeometry, geomVerts,
               selectedModelIndex, scope, sliderValue>>
simpVars == <<simplifyTimeout, timers, lastPass, burst>>
perfVars == <<available, queries, activeQuery, charts, window, lastFrame,
              frameCount, elapsed, unlockFPS, nextFrame, readout>>
keyVars == <<isAltDown, controlsEnabled, altHeld>>
vars == <<sceneVars, simpVars, perfVars, keyVars>>

\* ----------------------------------------------------------------- helpers
Range(s) == {s[i] : i \in DOMAIN s}

Min(a, b) == IF a < b THEN a ELSE b
Max(a, b) == IF a > b THEN a ELSE b

\* The n smallest positive integers outside `used`, in increasing order.
RECURSIVE FreshIds(_, _)
FreshIds(used, n) ==
  IF n = 0 THEN <<>>
  ELSE LET i == CHOOSE k \in 1..(Cardinality(used) + 1) : k \notin used
       IN  <<i>> \o FreshIds(used \cup {i}, n - 1)

\* object.traverse(child => if (child.isMesh) ...): the mesh nodes of a model
MeshesOf(om, obj) == Range(om[obj])

\* No call of applySimplification observed yet.
\* tracked: the history is kept (SpecDebounce); open: a call was seen;
\* ratio, scheduled: the slider percent of its last call and whether that call
\* reached setTimeout;
\* since: milliseconds since the last call, up to Debounce; passes: timer
\* callbacks run since the first call of the burst.
NoBurst == [tracked |-> FALSE, open |-> FALSE, ratio |-> 0, scheduled |-> FALSE,
            since |-> Debounce, passes |-> 0]
\* No timer callback ran in the last step.
\* ratio, scope, target: what the callback's closure held; latest: whether its
\* timer was the one simplifyTimeout named; registry: originalMeshes when it
\* ran; log: one record per iteration of its loop.
\* frames: what a call of renderer.render made while it ran could have drawn.
NoPass == [fired |-> FALSE, ratio |-> 0, scope |-> "all", target |-> <<>>,
           latest |-> FALSE, registry |-> <<>>, log |-> <<>>, frames |-> {}]

\* ------------------------------------------------------------- the JS heap
\* The handle of a timer that has run or was cleared.
Stale == 0 - 1

\* The value of the state after a handler: what the handler computed, cut down
\* to the objects still reachable from loadedModels, originalMeshes and the
\* closures of the pending timers (main.js:180-181, 895), and renumbered: a
\* loaded model by its index in loadedModels, the simplifier's geometries and
\* the pending timers from 0 and 1 on, in the order of their creation.
Commit(lm0, reg0, om0, mg0, gv0, tm0, handle) ==
  \* (the singleton sets bind each value once, for TLC)
  \E lm \in {lm0}, reg \in {reg0}, om \in {om0}, mg \in {mg0}, gv \in {gv0}, tm \in {tm0} :
  \E liveObjs \in {{lm[i].object : i \in DOMAIN lm}} :
  \E captured \in {UNION {Range(t.target) : t \in tm}} :
  \E liveMeshes \in {UNION {Range(om[o]) : o \in liveObjs} \cup {e.mesh : e \in captured}} :
  \E liveGeoms \in {{mg[m] : m \in liveMeshes} \cup {e.geometry : e \in Range(reg)}
                      \cup {e.geometry : e \in captured}} :
  \E deadObjs \in {({m[1] : m \in liveMeshes} \cup {g.mesh[1] : g \in liveGeoms}) \ liveObjs} :
  \E ro \in {[o \in liveObjs \cup deadObjs |->
                IF o \in liveObjs
                THEN CHOOSE i \in DOMAIN lm : lm[i].object = o
                ELSE Len(lm) + Cardinality({d \in deadObjs : d <= o})]} :
  \E rg \in {[g \in liveGeoms |->
                [mesh |-> <<ro[g.mesh[1]], g.mesh[2]>>, kind |-> g.kind,
                 n |-> IF g.kind = "simp"
                       THEN Cardinality({h \in liveGeoms :
                              h.kind = "simp" /\ h.mesh = g.mesh /\ h.n < g.n})
                       ELSE g.n]]} :
    LET rm(m) == <<ro[m[1]], m[2]>>
        re(es) == [k \in DOMAIN es |->
                     [mesh |-> rm(es[k].mesh), geometry |-> rg[es[k].geometry]]]
        rt(id) == Cardinality({t \in tm : t.id <= id})
    IN  /\ loadedModels' = [i \in DOMAIN lm |-> [lm[i] EXCEPT !.object = ro[@]]]
        /\ originalMeshes' = re(reg)
        /\ objMeshes' = [o \in {ro[x] : x \in liveObjs} |->
                           LET x == CHOOSE y \in liveObjs : ro[y] = o
                           IN  [k \in DOMAIN om[x] |-> rm(om[x][k])]]
        /\ meshGeometry' = [m \in {rm(x) : x \in liveMeshes} |->
                              rg[mg[CHOOSE x \in liveMeshes : rm(x) = m]]]
        /\ geomVerts' = [g \in {rg[h] : h \in liveGeoms} |->
                           gv[CHOOSE h \in liveGeoms : rg[h] = g]]
        /\ timers' = {[t EXCEPT !.id = rt(@), !.target = re(@)] : t \in tm}
        /\ simplifyTimeout' = IF handle = 0 THEN 0
                              ELSE IF \E t \in tm : t.id = handle THEN rt(handle)
                              ELSE Stale

\* A model object no live mesh or geometry belongs to.
FreshObject ==
  FreshIds(DOMAIN objMeshes \cup {m[1] : m \in DOMAIN meshGeometry}
             \cup {g.mesh[1] : g \in DOMAIN geomVerts}, 1)[1]

\* A timer handle no pending timer and no variable holds.
FreshTimer(tm, handle) == FreshIds({t.id : t \in tm} \cup ({handle} \ {Stale}), 1)[1]

\* A new geometry of the given kind made for mesh m.
FreshGeometry(gv, m, kind) ==
  [mesh |-> m, kind |-> kind,
   n |-> FreshIds({g.n + 1 : g \in {h \in DOMAIN gv : h.mesh = m /\ h.kind = kind}}, 1)[1] - 1]

\* ------------------------------------------------------------ model list UI
\* Mutant: the index after the one asked for is selected.
selectModelByIndexNext(index) == index + 1

\* selectModelByIndex(index)                               main.js:566-594
\* (the gizmo and the transform panel are display only)
selectModelByIndex(index) == index

\* updateModelSelectUI()                                   main.js:684-709
\* The value of selectedModelIndex after the call.
updateModelSelectUI(lm, sel) ==
  IF Len(lm) > 0
  THEN selectModelByIndex(IF sel < 0 \/ sel >= Len(lm) THEN Len(lm) - 1 ELSE sel)
  ELSE selectModelByIndex(-1)

\* getUniqueName(baseName)                                 main.js:431-463
\* A name is [base, n]: "base" when n = 0 and "base_n" otherwise. The prefix
\* of either form is base; the result is the first base_k, k = 1, 2, ..., that
\* no loaded model has.
getUniqueName(lm, baseName) ==
  LET taken == {lm[i].name : i \in DOMAIN lm}
      k == CHOOSE c \in 1..(Len(lm) + 1) :
             /\ [base |-> baseName.base, n |-> c] \notin taken
             /\ \A d \in 1..(c - 1) : [base |-> baseName.base, n |-> d] \in taken
  IN  [base |-> baseName.base, n |-> k]

\* ------------------------------------------------------------------ loading
\* Mutant: the registry stores the geometry the mesh displays.
GeometryCloneShared(g) == g

\* child.geometry.clone(): a new geometry object made for the registry
\*                                                          main.js:850
GeometryClone(g) == [g EXCEPT !.kind = "clone"]

\* onModelLoaded(object, startTime, modelName)       main.js:795-865 (1601-1668)
\* `shape` gives the vertex count of each mesh of the parsed object, appendMode
\* is #chk-append's checked, read at 796-797.
onModelLoaded(shape, modelName, appendMode) ==
  LET lm0 == IF appendMode THEN loadedModels ELSE <<>>          \* 799-803
      reg0 == IF appendMode THEN originalMeshes ELSE <<>>
      n == Len(shape)
      obj == FreshObject
      ms == [i \in 1..n |-> <<obj, i>>]
      loaded(i) == [mesh |-> ms[i], kind |-> "loaded", n |-> 0]
      clone(i) == GeometryClone(loaded(i))                      \* 850
      uniqueName == getUniqueName(lm0, modelName)               \* 815, not used
      lm1 == Append(lm0, [name |-> modelName, object |-> obj])  \* 823-826
      reg1 == reg0 \o [i \in 1..n |-> [mesh |-> ms[i], geometry |-> clone(i)]]
      om1 == [o \in DOMAIN objMeshes \cup {obj} |->
                IF o = obj THEN ms ELSE objMeshes[o]]
      mg1 == [m \in DOMAIN meshGeometry \cup Range(ms) |->
                IF m \in Range(ms) THEN loaded(m[2]) ELSE meshGeometry[m]]
      new == {loaded(i) : i \in 1..n} \cup {clone(i) : i \in 1..n}
      gv1 == [g \in DOMAIN geomVerts \cup new |->
                IF g \in new THEN shape[g.mesh[2]] ELSE geomVerts[g]]
  IN  /\ Commit(lm1, reg1, om1, mg1, gv1, timers, simplifyTimeout)
      /\ selectedModelIndex' = updateModelSelectUI(lm1, Len(lm1) - 1) \* 828-829
      /\ sliderValue' = IF appendMode THEN sliderValue ELSE 0  \* 806-807
      /\ UNCHANGED scope

\* -------------------------------------------------------------- duplicating
\* Mutant: the copy gets no entry in originalMeshes.
CloneEntriesNone(reg, meshesA, meshesB) == <<>>

\* The entries pushed for the meshes of the copy        main.js:388-391, 405-425
\* meshesA, meshesB: the meshes of the original and of the copy in the order
\* of traverseTwo. originalMeshesMap holds, per mesh, the geometry of its last
\* entry; a mesh of the copy whose counterpart has an entry gets an entry with
\* that same geometry object.
CloneEntries(reg, meshesA, meshesB) ==
  LET has(m) == \E k \in DOMAIN reg : reg[k].mesh = m           \* 409
      get(m) == reg[CHOOSE k \in DOMAIN reg :                    \* 410
                      /\ reg[k].mesh = m
                      /\ \A j \in DOMAIN reg : reg[j].mesh = m => j <= k].geometry
      pairs == SelectSeq([i \in DOMAIN meshesA |-> <<meshesA[i], meshesB[i]>>],
                         LAMBDA pr : has(pr[1]))
  IN  [k \in DOMAIN pairs |->
         [mesh |-> pairs[k][2], geometry |-> get(pairs[k][1])]]  \* 411-414

\* duplicateSelectedModel()                                main.js:351-428
duplicateSelectedModel ==
  IF selectedModelIndex < 0 \/ selectedModelIndex >= Len(loadedModels)
  THEN UNCHANGED <<sceneVars, simplifyTimeout, timers>>          \* 352-353
  ELSE
    LET originalEntry == loadedModels[selectedModelIndex + 1]    \* 352
        originalObj == originalEntry.object                      \* 355
        cloneObj == FreshObject                                  \* 359
        meshesA == objMeshes[originalObj]
        meshesB == [i \in DOMAIN meshesA |-> <<cloneObj, i>>]
        newName == getUniqueName(loadedModels, originalEntry.name)  \* 371
        lm1 == Append(loadedModels, [name |-> newName, object |-> cloneObj]) \* 376-380
        reg1 == originalMeshes \o CloneEntries(originalMeshes, meshesA, meshesB)
        om1 == [o \in DOMAIN objMeshes \cup {cloneObj} |->
                  IF o = cloneObj THEN meshesB ELSE objMeshes[o]]
        \* Object3D.clone() copies the meshes and shares their geometries (358)
        mg1 == [m \in DOMAIN meshGeometry \cup Range(meshesB) |->
                  IF m \in Range(meshesB) THEN meshGeometry[meshesA[m[2]]]
                  ELSE meshGeometry[m]]
    IN  /\ Commit(lm1, reg1, om1, mg1, geomVerts, timers, simplifyTimeout)
        /\ selectedModelIndex' = updateModelSelectUI(lm1, selectedModelIndex) \* 425
        /\ UNCHANGED <<scope, sliderValue>>

\* ----------------------------------------------------------------- deleting
\* The geometries deleteSelectedModel calls dispose() on: child.geometry of
\* every mesh of the removed object, that is, what each displays. dispose()
\* releases the buffers the renderer holds for the geometry and leaves the
\* object and every reference to it as they are.          main.js:480-483
DisposedGeometries(om, mg, modelToRemove) ==
  {mg[m] : m \in MeshesOf(om, modelToRemove)}

\* Mutant: the last model is removed, whichever is selected.
SpliceLast(lm, index) == SubSeq(lm, 1, Len(lm) - 1)

\* loadedModels.splice(index, 1), index counted from 0      main.js:490 (1331)
Splice(lm, index) ==
  [i \in 1..(Len(lm) - 1) |-> IF i <= index THEN lm[i] ELSE lm[i + 1]]

\* deleteSelectedModel()                             main.js:465-497 (1306-1337)
deleteSelectedModel ==
  IF selectedModelIndex = -1 \/ selectedModelIndex >= Len(loadedModels)
  THEN UNCHANGED <<sceneVars, simplifyTimeout, timers>>          \* 466
  ELSE
    LET modelToRemove == loadedModels[selectedModelIndex + 1].object
        meshesToRemove == MeshesOf(objMeshes, modelToRemove)     \* 474-477
        reg1 == SelectSeq(originalMeshes,
                          LAMBDA item : item.mesh \notin meshesToRemove) \* 478
        lm1 == Splice(loadedModels, selectedModelIndex)          \* 490
    IN  /\ Commit(lm1, reg1, objMeshes, meshGeometry, geomVerts, timers, simplifyTimeout)
        /\ selectedModelIndex' = updateModelSelectUI(lm1, -1)    \* 491-493
        /\ UNCHANGED <<scope, sliderValue>>

\* ----------------------------------------------------------- simplification
\* Mutant: clearTimeout clears nothing.
ClearTimeoutNothing(tm, id) == tm

\* clearTimeout(id): the pending timers without timer `id`
ClearTimeout(tm, id) == {t \in tm : t.id # id}

\* if (simplifyTimeout) clearTimeout(simplifyTimeout)      main.js:899 (1702)
CancelPending(tm, handle) == IF handle # 0 THEN ClearTimeout(tm, handle) ELSE tm

\* targetMeshes                                            main.js:906-923
\* The entries of the selected model (scope 'current') or all of them.
TargetMeshes(sc) ==
  IF sc = "all" THEN originalMeshes
  ELSE LET currentModelMeshes ==
             MeshesOf(objMeshes, loadedModels[selectedModelIndex + 1].object)
       IN  SelectSeq(originalMeshes, LAMBDA item : item.mesh \in currentModelMeshes)

\* if (selectedModelIndex === -1 || !loadedModels[selectedModelIndex]) return
\*                                                         main.js:912
NothingSelected == selectedModelIndex = -1 \/ selectedModelIndex >= Len(loadedModels)

\* applySimplification(reduceRatio), up to and including setTimeout
\*                                                   main.js:897-927 (1700-1706)
\* reduceRatio is percent / 100; sc is the scope radio checked at the call.
applySimplification(percent, sc) ==
  IF Len(originalMeshes) = 0                                     \* 898
  THEN UNCHANGED <<loadedModels, originalMeshes, objMeshes, meshGeometry, geomVerts,
                   simplifyTimeout, timers, burst>>
  ELSE
    LET tm1 == CancelPending(timers, simplifyTimeout)            \* 899
        newBurst == ~burst.open \/ burst.since >= Debounce
        seen == [tracked |-> TRUE, open |-> TRUE,
                 ratio |-> percent, scheduled |-> FALSE, since |-> 0,
                 passes |-> IF newBurst THEN 0 ELSE burst.passes]
    IN  IF sc # "all" /\ NothingSelected                         \* 912
        THEN /\ Commit(loadedModels, originalMeshes, objMeshes, meshGeometry,
                       geomVerts, tm1, simplifyTimeout)
             /\ burst' = IF burst.tracked THEN seen ELSE burst
        ELSE
          LET id == FreshTimer(timers, simplifyTimeout)
              tm2 == tm1 \cup {[id |-> id, ratio |-> percent,    \* 927, 963
                                remaining |-> Debounce, scope |-> sc,
                                target |-> TargetMeshes(sc),
                                \* history: this call cleared a pending timer
                                superseding |-> burst.tracked /\ tm1 # timers]}
          IN  /\ Commit(loadedModels, originalMeshes, objMeshes, meshGeometry,
                        geomVerts, tm2, id)
              /\ burst' = IF burst.tracked THEN [seen EXCEPT !.scheduled = TRUE]
                           ELSE burst

\* Mutant: the callback walks the entries captured when the timer was set.
PassEntriesCaptured(captured, registry) == captured

\* The entries the timer callback walks: originalMeshes.forEach, the array as
\* it is when the timer fires, not the captured targetMeshes
\*                                                         main.js:931 (1710)
PassEntries(captured, registry) == registry

\* reduceRatio <= 0.005, with reduceRatio = percent / 100  main.js:934 (1713)
IsOriginalRatio(percent) == percent * 1000 <= 5 * 100

\* Math.floor(totalVertices * reduceRatio)                 main.js:939 (1718)
CountToRemove(totalVertices, percent) == (totalVertices * percent) \div 100

\* Mutant: modify is called whatever the count.
ShouldModifyAlways(countToRemove, totalVertices) == TRUE

\* neither return of main.js:941-942 (1720-1721) is taken
ShouldModify(countToRemove, totalVertices) ==
  ~(countToRemove >= totalVertices) /\ ~(countToRemove <= 0)

\* Vertex count of the geometry modifier.modify(geometry, countToRemove)
\* returns (three.js SimplifyModifier, called at main.js:945 (1724)).
ModifiedVerts(totalVertices, countToRemove) == totalVertices - countToRemove

\* mesh.geometry after the return of main.js:941-942: nothing is assigned
OnSkip(current, original) == current

\* mesh.geometry after the catch block                     main.js:948-950
OnModifyThrow(current, original) == IF current # original THEN original ELSE current

\* Mutant: the branch of ratio <= 0.005 assigns nothing.
OnOriginalRatioKeep(current, original) == current

\* mesh.geometry after the branch of ratio <= 0.005        main.js:935 (1714)
OnOriginalRatio(current, original) == IF current # original THEN original ELSE current

\* Mutant: the callback stores the simplified geometry in the entry.
EntryAfterStored(data, simplified) == simplified

\* The registry entry after the callback handled it: the callback assigns
\* mesh.geometry only, never data.geometry                 main.js:931-951
EntryAfter(data, simplified) == data

\* Mutant: the simplifier is given the geometry the mesh displays.
ModifyInputDisplayed(data, current) == current

\* The geometry whose vertices are counted and that modifier.modify is given:
\* `geometry` of const { mesh, geometry } = data           main.js:932, 938, 945
ModifyInput(data, current) == data.geometry

\* One iteration of originalMeshes.forEach                 main.js:931-952
\* current is mesh.geometry, fresh the new geometry modify would return,
\* throws whether modify throws. The result is the log record of the iteration.
ProcessEntry(data, percent, current, totalVertices, fresh, throws) ==
  LET base == [mesh |-> data.mesh, original |-> data.geometry, before |-> current,
               verts |-> totalVertices, arg |-> ModifyInput(data, current)]
      countToRemove == CountToRemove(totalVertices, percent)
  IN  IF IsOriginalRatio(percent)
      THEN base @@ [after |-> OnOriginalRatio(current, data.geometry),
                    branch |-> "original", count |-> 0]
      ELSE IF ~ShouldModify(countToRemove, totalVertices)
      THEN base @@ [after |-> OnSkip(current, data.geometry),
                    branch |-> "skipped", count |-> countToRemove]
      ELSE IF throws
      THEN base @@ [after |-> OnModifyThrow(current, data.geometry),
                    branch |-> "caught", count |-> countToRemove]
      ELSE base @@ [after |-> fresh,
                    branch |-> "modified", count |-> countToRemove]

\* Mutant: the loop gives way to other tasks between its iterations.
YieldPointsEach(n) == 0..n

\* The iterations of the loop of n entries after which another task, such as
\* a call of animate, can run: the timer callback has no await and starts
\* nothing, so it runs from its first statement to its last as one task.
\*                                                          main.js:927-963
YieldPoints(n) == {0, n}

\* mesh.geometry of the meshes of a pass after its first k iterations, by
\* entry of the log.
ViewAt(log, k) ==
  [i \in DOMAIN log |-> IF i <= k THEN log[i].after ELSE log[i].before]

\* What renderer.render (main.js:1019) can draw of the meshes of a pass from
\* the start of the callback to its end.
Rendered(log) == {ViewAt(log, k) : k \in YieldPoints(Len(log))}

\* The whole forEach loop from entry i on. st = [mg, gv, reg, log]: mesh ->
\* geometry, geometry -> vertex count, the registry and the log so far.
RECURSIVE RunPass(_, _, _, _, _)
RunPass(entries, i, percent, throwsAt, st) ==
  IF i > Len(entries) THEN st
  ELSE
    LET data == entries[i]
        fresh == FreshGeometry(st.gv, data.mesh, "simp")
        r == ProcessEntry(data, percent, st.mg[data.mesh],
                          st.gv[ModifyInput(data, st.mg[data.mesh])],
                          fresh, i \in throwsAt)
        made == r.branch = "modified"
        gv1 == IF made
               THEN [g \in DOMAIN st.gv \cup {fresh} |->
                       IF g = fresh THEN ModifiedVerts(r.verts, r.count) ELSE st.gv[g]]
               ELSE st.gv
        reg1 == [k \in DOMAIN st.reg |->
                   IF st.reg[k] = data THEN EntryAfter(data, [data EXCEPT !.geometry = fresh])
                   ELSE st.reg[k]]
    IN  RunPass(entries, i + 1, percent, throwsAt,
                [mg |-> [st.mg EXCEPT ![data.mesh] = r.after],
                 gv |-> gv1,
                 reg |-> IF made THEN reg1 ELSE st.reg,
                 log |-> Append(st.log, r)])

\* ---------------------------------------------------------------- telemetry
\* poll() returning null, and the panel before the first aggregation.
NoResult == {}
NoReadout == [shown |-> FALSE, fps |-> 0, frameTime |-> 0, cpu |-> 0, gpu |-> NoResult,
              gpuText |-> "N/A", calls |-> 0, tris |-> 0]

\* charts = {}: no PerfChart was constructed             main.js:182, 272-281
NoCharts == [created |-> FALSE]

\* new PerfChart(...): data = new Array(60).fill(0), the value label shows 0
\*                                                       main.js:10-36
PerfChartNew == [data |-> [i \in 1..ChartPoints |-> 0], label |-> 0]

\* An update that pushes without shifting.
PerfChartGrow(chart, val) == [data |-> chart.data \o <<val>>, label |-> val]

\* PerfChart.update(val): data.shift(); data.push(val); the value label
\* shows val                                             main.js:38-41
PerfChartUpdate(chart, val) == [data |-> Tail(chart.data) \o <<val>>, label |-> val]

\* The six charts init() makes; updates: history, update rounds so far
\*                                                       main.js:272-281
ChartsNew == [created |-> TRUE, updates |-> 0,
              fps |-> PerfChartNew, ms |-> PerfChartNew, cpu |-> PerfChartNew,
              gpu |-> PerfChartNew, calls |-> PerfChartNew, tris |-> PerfChartNew]

\* A query object as gl.createQuery() returns it. id: its position in the
\* order of creation among the queries of the queue; lost: its result will
\* never be available; polls: history, how often poll found it lost.
NewQuery(id, lost) == [id |-> id, ready |-> FALSE, lost |-> lost, ns |-> 0, polls |-> 0]

\* An aggregation that waits for more than the interval.
ShouldAggregateLater(timeDiff) == timeDiff > AggregateMs

\* A start that does not look at the capability.
GPUTimerStartAlways(av, qs, active) == Append(qs, NewQuery(Len(qs) + 1, active))

\* GPUTimer.start()                                  main.js:144-149 (1161-1166)
\* active: a TIME_ELAPSED query is active in the GL context; beginQuery then
\* fails (INVALID_OPERATION) and the new query never gets a result.
GPUTimerStart(av, qs, active) ==
  IF ~av THEN qs ELSE Append(qs, NewQuery(Len(qs) + 1, active))

\* timeNs / 1000000.0, for a whole number of milliseconds     main.js:163 (1182)
NsToMs(timeNs) == timeNs \div 1000000

\* A queue without its element at position k.
Without(qs, k) == [i \in 1..(Len(qs) - 1) |-> IF i < k THEN qs[i] ELSE qs[i + 1]]

\* A poll that takes the oldest query that is ready, wherever it is.
GPUTimerPollReady(av, qs, disjoint) ==
  IF ~av \/ ~\E i \in DOMAIN qs : qs[i].ready
  THEN [queries |-> qs, value |-> NoResult]
  ELSE LET k == CHOOSE i \in DOMAIN qs :
                  qs[i].ready /\ \A j \in 1..(i - 1) : ~qs[j].ready
       IN  [queries |-> Without(qs, k),
            value |-> IF disjoint THEN NoResult ELSE {NsToMs(qs[k].ns)}]

\* A poll that gives up a query whose result is not there yet.
GPUTimerPollDrop(av, qs, disjoint) ==
  IF ~av \/ Len(qs) = 0 THEN [queries |-> qs, value |-> NoResult]
  ELSE [queries |-> Tail(qs),
        value |-> IF qs[1].ready /\ ~disjoint THEN {NsToMs(qs[1].ns)} ELSE NoResult]

\* A poll that keeps a query whose result the disjoint flag spoils.
GPUTimerPollKeepDisjoint(av, qs, disjoint) ==
  IF ~av \/ Len(qs) = 0 THEN [queries |-> qs, value |-> NoResult]
  ELSE IF qs[1].ready /\ ~disjoint
  THEN [queries |-> Tail(qs), value |-> {NsToMs(qs[1].ns)}]
  ELSE [queries |-> qs, value |-> NoResult]

\* GPUTimer.poll()                                   main.js:156-172 (1173-1192)
\* disjoint is gl.getParameter(GPU_DISJOINT_EXT). The result is the queue
\* after the call and the returned value: {ms} or NoResult for null.
GPUTimerPoll(av, qs, disjoint) ==
  IF ~av \/ Len(qs) = 0 THEN [queries |-> qs, value |-> NoResult]      \* 157
  ELSE LET query == qs[1] IN                                           \* 158
       IF query.ready /\ ~disjoint                                     \* 161
       THEN [queries |-> Tail(qs), value |-> {NsToMs(query.ns)}]       \* 162-165
       ELSE IF query.ready
       THEN [queries |-> Tail(qs), value |-> NoResult]                 \* 166-169
       ELSE [queries |-> qs, value |-> NoResult]                       \* 171

\* The queue as the state keeps it after a call of animate: the queries
\* numbered from 1 in their order, a lost head that poll left counted.
Requeue(qs, polled) ==
  [i \in DOMAIN qs |->
     [qs[i] EXCEPT !.id = i,
                   !.polls = IF polled /\ i = 1 /\ qs[i].lost
                             THEN Min(PollLimit + 1, @ + 1) ELSE @]]

\* A division that drops the fraction.
FloorDiv(num, den) == num \div den

\* Math.round(num / den) for positive integers           main.js:1028 (1800)
RoundDiv(num, den) == (2 * num + den) \div (2 * den)

\* (timeDiff / frameCount).toFixed(2), in hundredths of a millisecond
\*                                                       main.js:1029 (1801)
ToFixed2(timeDiff, count) == RoundDiv(timeDiff * 100, count)

\* if (now - lastTime >= 500)                            main.js:1026 (1798)
ShouldAggregate(timeDiff) == timeDiff >= AggregateMs

\* The CPU time an aggregation shows: cpuTime of the frame that aggregates
\*                                                       main.js:1024, 1041, 1050
ReportedCpu(cpuTime, cpuSum, rendered) == cpuTime

\* The text of #val-gpu without its " ms"                main.js:1032, 1042
GpuText(value) == IF value # NoResult THEN "ms" ELSE "N/A"

\* if (charts.fps) { charts.fps.update(fps); ... }       main.js:1047-1054
UpdateCharts(ch, rec) ==
  IF ~ch.created THEN ch
  ELSE [created |-> TRUE, updates |-> ch.updates + 1,
        fps |-> PerfChartUpdate(ch.fps, rec.fps),
        ms |-> PerfChartUpdate(ch.ms, rec.frameTime),
        cpu |-> PerfChartUpdate(ch.cpu, rec.cpu),
        gpu |-> IF rec.gpu # NoResult                                  \* 1051
                THEN PerfChartUpdate(ch.gpu, CHOOSE v \in rec.gpu : TRUE)
                ELSE ch.gpu,
        calls |-> PerfChartUpdate(ch.calls, rec.calls),
        tris |-> PerfChartUpdate(ch.tris, rec.tris)]

\* No call of animate, no frame rendered since the last aggregation.
NoWindow == [called |-> 0, cpuSum |-> 0, rendered |-> 0]

\* No call of animate in the last step.
\* trigger: how the call was scheduled ("direct": the call of main.js:1064);
\* failed: renderer.render threw; overlap: start() ran while a query was
\* active; disjoint: poll read GPU_DISJOINT_EXT and found it set; timeDiff,
\* count: now - lastTime and frameCount after the increment;
\* started: the queue after start(); left: the ids of the queue after poll();
\* value: what poll returned; called, cpuSum, rendered: the calls of animate,
\* the CPU times and the number of the frames rendered since the last
\* aggregation, this call included; charts: the charts before the call.
NoFrame == [fired |-> FALSE, failed |-> FALSE, aggregated |-> FALSE, overlap |-> FALSE,
            disjoint |-> FALSE, trigger |-> "none",
            timeDiff |-> 0, count |-> 0, started |-> <<>>, left |-> <<>>,
            value |-> NoResult, called |-> 0, cpuSum |-> 0, rendered |-> 0,
            charts |-> NoCharts]

\* The ids of the queries of a queue, oldest first.
QueryIds(qs) == [i \in DOMAIN qs |-> qs[i].id]

\* The state animate reads and writes.
LoopState ==
  [available |-> available, queries |-> queries, activeQuery |-> activeQuery,
   frameCount |-> frameCount, elapsed |-> elapsed, window |-> window,
   readout |-> readout, charts |-> charts, nextFrame |-> nextFrame,
   lastFrame |-> lastFrame]

\* setTimeout(animate, 0) or requestAnimationFrame(animate)  main.js:990-994
Schedule(unlock) == IF unlock THEN "timeout" ELSE "raf"

\* animate() after it has scheduled the next call     main.js:996-1058 (1775-1833)
\* s: the state before (LoopState); in.dt: milliseconds since the previous
\* call; in.cpuTime: cpuEnd - cpuStart of this frame; in.disjoint: what the
\* driver reports if poll asks; in.renderThrows: renderer.render (1019)
\* throws; in.calls, in.tris: renderer.info.render. The result is the state
\* after.
FrameBody(s, in) ==
  LET timeDiff == s.elapsed + in.dt                              \* 996, 1027
      count == s.frameCount + 1                                  \* 997
      started == GPUTimerStart(s.available, s.queries, s.activeQuery)  \* 1016
      called == s.window.called + 1
      frame == [NoFrame EXCEPT !.fired = TRUE,
                               !.overlap = s.available /\ s.activeQuery,
                               !.trigger = Head(s.nextFrame),
                               !.called = called,
                               !.timeDiff = timeDiff, !.count = count,
                               !.started = started, !.left = QueryIds(started),
                               !.charts = s.charts]
  IN  IF in.renderThrows
      THEN \* the exception leaves animate: neither end() nor the rest runs
           [s EXCEPT !.queries = Requeue(started, FALSE),
                     !.activeQuery = s.available,
                     !.frameCount = count,
                     !.elapsed = timeDiff,
                     !.window = [s.window EXCEPT !.called = called],
                     !.lastFrame = [frame EXCEPT !.failed = TRUE,
                                                 !.cpuSum = s.window.cpuSum,
                                                 !.rendered = s.window.rendered]]
      ELSE
        LET cpuSum == s.window.cpuSum + in.cpuTime               \* 1015, 1023-1024
            rendered == s.window.rendered + 1
        IN  IF ShouldAggregate(timeDiff)                         \* 1026
            THEN LET polled == GPUTimerPoll(s.available, started, in.disjoint)  \* 1031
                     rec == [shown |-> TRUE,
                             fps |-> RoundDiv(count * 1000, timeDiff),          \* 1028
                             frameTime |-> ToFixed2(timeDiff, count),            \* 1029
                             cpu |-> ReportedCpu(in.cpuTime, cpuSum, rendered),  \* 1041
                             gpu |-> polled.value,
                             gpuText |-> GpuText(polled.value),                  \* 1032
                             calls |-> in.calls, tris |-> in.tris]               \* 1034-1035
                 IN  [s EXCEPT !.activeQuery = FALSE,                            \* 1022
                               !.queries = Requeue(polled.queries,
                                             s.available /\ polled.queries = started),
                               !.readout = rec,                                  \* 1037-1045
                               !.charts = UpdateCharts(s.charts, rec),           \* 1047-1054
                               !.frameCount = 0,                                 \* 1056
                               !.elapsed = 0,                                    \* 1057
                               !.window = NoWindow,
                               !.lastFrame =
                                  [frame EXCEPT !.aggregated = TRUE,
                                     !.disjoint =
                                       /\ in.disjoint /\ s.available
                                       /\ started # <<>> /\ started[1].ready,
                                     !.left = QueryIds(polled.queries),
                                     !.value = polled.value,
                                     !.cpuSum = cpuSum, !.rendered = rendered]]
            ELSE [s EXCEPT !.activeQuery = FALSE,                                \* 1022
                           !.queries = Requeue(started, FALSE),
                           !.frameCount = count,
                           !.elapsed = timeDiff,
                           !.window = [called |-> called, cpuSum |-> cpuSum,
                                       rendered |-> rendered],
                           !.lastFrame = [frame EXCEPT !.cpuSum = cpuSum,
                                                       !.rendered = rendered]]

\* An animate that counts a frame twice when the frame rate is unlocked.
FrameCountsTwice(unlock, s, in) ==
  [FrameBody(IF unlock THEN [s EXCEPT !.frameCount = @ + 1] ELSE s, in)
     EXCEPT !.nextFrame = Append(Tail(s.nextFrame), Schedule(unlock))]

\* An animate that schedules the next call at the end of its body, which a
\* render that throws never reaches.
FrameSchedulesLast(unlock, s, in) ==
  [FrameBody(s, in)
     EXCEPT !.nextFrame = IF in.renderThrows THEN Tail(s.nextFrame)
                          ELSE Append(Tail(s.nextFrame), Schedule(unlock))]

\* animate() as a function of params.unlockFPS, the state and the frame's
\* inputs                                            main.js:989-1059 (1763-1834)
\* The call that runs is the oldest one scheduled; it leaves the scheduled
\* calls, and its first statement schedules the next one.
Frame(unlock, s, in) ==
  [FrameBody(s, in) EXCEPT !.nextFrame = Append(Tail(s.nextFrame), Schedule(unlock))]

\* animate()                                         main.js:989-1059 (1763-1834)
animate(dt, cpuTime, disjoint, renderThrows, calls, tris) ==
  \E out \in {Frame(unlockFPS, LoopState,
                    [dt |-> dt, cpuTime |-> cpuTime, disjoint |-> disjoint,
                     renderThrows |-> renderThrows, calls |-> calls, tris |-> tris])} :
    /\ queries' = out.queries
    /\ activeQuery' = out.activeQuery
    /\ frameCount' = out.frameCount
    /\ elapsed' = out.elapsed
    /\ window' = out.window
    /\ readout' = out.readout
    /\ charts' = out.charts
    /\ nextFrame' = out.nextFrame
    /\ lastFrame' = out.lastFrame
    /\ UNCHANGED <<available, unlockFPS>>

\* ------------------------------------------------------------------ actions
\* A timer whose delay has elapsed runs before any later event is handled.
NoTimerDue == \A t \in timers : t.remaining > 0

\* The globals after init()                               main.js:176-228
BootScene ==
  /\ loadedModels = <<>>                                         \* 180
  /\ originalMeshes = <<>>                                       \* 181
  /\ objMeshes = <<>>
  /\ meshGeometry = <<>>
  /\ geomVerts = <<>>
  /\ selectedModelIndex = -1                                     \* 186
  /\ scope = "all"                                               \* 903
  /\ sliderValue = 0                                             \* 540
  /\ simplifyTimeout = 0                                         \* 895
  /\ timers = {}
  /\ lastPass = NoPass
  /\ isAltDown = FALSE                                          \* 189
  /\ controlsEnabled = TRUE                                     \* 230
  /\ altHeld = FALSE

Boot ==
  /\ BootScene
  /\ queries = <<>>                                              \* 139
  /\ frameCount = 0                                             \* 184
  /\ elapsed = 0                                                \* 183
  /\ unlockFPS = FALSE                                          \* 192
  /\ nextFrame = <<"direct">>                                       \* 1064
  /\ readout = NoReadout
  /\ activeQuery = FALSE
  /\ window = NoWindow
  /\ lastFrame = NoFrame

\* The page with the GPU timer extension present.
Init ==
  /\ Boot
  /\ available = TRUE                                           \* 140
  /\ charts = ChartsNew                                         \* 273-280
  /\ burst = NoBurst

\* The same with the history of the bursts of calls kept.
InitDebounce ==
  /\ Boot
  /\ available = TRUE
  /\ charts = ChartsNew
  /\ burst = [NoBurst EXCEPT !.tracked = TRUE]

\* The page on any browser: the extension present or not. The charts could
\* not be made (the catch of main.js:281 leaves charts = {}), so that the
\* loop has no history of records to carry.
InitTelemetry ==
  /\ Boot
  /\ available \in BOOLEAN                                      \* 137, 140
  /\ charts = NoCharts                                          \* 182, 281
  /\ burst = NoBurst

\* The same with the charts made; or, without the extension and with the
\* frame rate unlocked, the loop late in a window of many short frames.
InitCharts ==
  /\ charts = ChartsNew                                         \* 273-280
  /\ burst = NoBurst
  /\ \/ Boot /\ available \in BOOLEAN
     \/ \E w \in FastWindows, cpuTime \in CpuTimes :
          /\ BootScene
          /\ available = FALSE
          /\ queries = <<>>
          /\ frameCount = w.frames
          /\ elapsed = w.ms
          /\ unlockFPS = TRUE
          /\ nextFrame = <<"timeout">>
          /\ readout = NoReadout
          /\ activeQuery = FALSE
          /\ window = [called |-> w.frames, cpuSum |-> w.frames * cpuTime,
                       rendered |-> w.frames]
          /\ lastFrame = NoFrame

\* GLTFLoader's onLoad callback, or the debug button       main.js:756-758, 966-972
LoadModel(shapes, maxModels, maxMeshes) ==
  \E shape \in shapes, base \in ModelNames, appendMode \in BOOLEAN :
    /\ NoTimerDue
    /\ (IF appendMode THEN Len(loadedModels) ELSE 0) < maxModels
    /\ (IF appendMode THEN Len(originalMeshes) ELSE 0) + Len(shape) <= maxMeshes
    /\ onModelLoaded(shape, [base |-> base, n |-> 0], appendMode)
    /\ lastPass' = NoPass
    /\ UNCHANGED <<burst, perfVars, keyVars>>

\* onKeyDown with Delete or Backspace                      main.js:296-302
DeleteKey ==
  /\ NoTimerDue
  /\ deleteSelectedModel
  /\ lastPass' = NoPass
  /\ UNCHANGED <<burst, perfVars, keyVars>>

\* A call of duplicateSelectedModel. Its one call site, the 'dragging-changed'
\* handler (main.js:241-248), makes it when a drag starts with isAltDown set
\* and a model selected; the runs take the call as given.
Duplicate(maxModels) ==
  /\ NoTimerDue
  /\ selectedModelIndex # -1                                     \* 245
  /\ Len(loadedModels) < maxModels
  /\ duplicateSelectedModel
  /\ lastPass' = NoPass
  /\ UNCHANGED <<burst, perfVars, keyVars>>

\* The 'dragging-changed' handler of the gizmo; value: a drag starts (TRUE)
\* or ends (FALSE)                                         main.js:241-248
onDraggingChanged(value) ==
  /\ controlsEnabled' = ~value                                  \* 242
  /\ IF value /\ isAltDown /\ selectedModelIndex # -1          \* 245
     THEN duplicateSelectedModel                                \* 246
     ELSE UNCHANGED <<sceneVars, simplifyTimeout, timers>>

\* The user starts to drag the gizmo, which is attached to the selected model.
DragStart ==
  /\ NoTimerDue
  /\ controlsEnabled
  /\ selectedModelIndex # -1                                    \* 578-580
  /\ onDraggingChanged(TRUE)
  /\ lastPass' = NoPass
  /\ UNCHANGED <<burst, perfVars, isAltDown, altHeld>>

\* The user lets go of the gizmo.
DragEnd ==
  /\ NoTimerDue
  /\ ~controlsEnabled
  /\ onDraggingChanged(FALSE)
  /\ lastPass' = NoPass
  /\ UNCHANGED <<burst, perfVars, isAltDown, altHeld>>

\* The Alt key goes down: onKeyDown handles Delete and Backspace only and
\* writes nothing for any other key                        main.js:296-302
AltKeyDown ==
  /\ NoTimerDue
  /\ ~altHeld
  /\ altHeld' = TRUE
  /\ lastPass' = NoPass
  /\ UNCHANGED <<sceneVars, simplifyTimeout, timers, burst, perfVars,
                 isAltDown, controlsEnabled>>

\* The Alt key goes up: onKeyUp                             main.js:292-294
AltKeyUp ==
  /\ NoTimerDue
  /\ altHeld
  /\ altHeld' = FALSE
  /\ isAltDown' = FALSE                                         \* 293
  /\ lastPass' = NoPass
  /\ UNCHANGED <<sceneVars, simplifyTimeout, timers, burst, perfVars, controlsEnabled>>

\* 'change' of #model-select                               main.js:504-508
SelectModel ==
  \E index \in (-1..(Len(loadedModels) - 1)) \ {selectedModelIndex} :
    /\ NoTimerDue
    /\ selectedModelIndex' = selectModelByIndex(index)
    /\ lastPass' = NoPass
    /\ UNCHANGED <<loadedModels, originalMeshes, objMeshes, meshGeometry, geomVerts,
                   scope, sliderValue, simplifyTimeout, timers, burst, perfVars, keyVars>>

\* onPointerDown hitting a mesh of model rootIndex         main.js:304-348
PointerPick ==
  \E rootIndex \in 0..(Len(loadedModels) - 1) :
    /\ NoTimerDue
    /\ rootIndex # selectedModelIndex                            \* 343
    /\ selectedModelIndex' = selectModelByIndex(rootIndex)
    /\ lastPass' = NoPass
    /\ UNCHANGED <<loadedModels, originalMeshes, objMeshes, meshGeometry, geomVerts,
                   scope, sliderValue, simplifyTimeout, timers, burst, perfVars, keyVars>>

\* 'input' of #simp-slider                                 main.js:542-547
SliderInput(percents) ==
  \E val \in percents \ {sliderValue} :
    /\ NoTimerDue
    /\ Cardinality(timers) < MaxPending
    /\ sliderValue' = val
    /\ applySimplification(val, scope)
    /\ lastPass' = NoPass
    /\ UNCHANGED <<selectedModelIndex, scope, perfVars, keyVars>>

\* 'change' of a simp-scope radio                          main.js:519-526
ScopeChange ==
  \E sc \in {"all", "current"} \ {scope} :
    /\ NoTimerDue
    /\ Cardinality(timers) < MaxPending
    /\ scope' = sc
    /\ applySimplification(sliderValue, sc)
    /\ lastPass' = NoPass
    /\ UNCHANGED <<selectedModelIndex, sliderValue, perfVars, keyVars>>

\* dt milliseconds pass with no event.
Tick(dt) ==
  /\ NoTimerDue
  /\ timers' = {[t EXCEPT !.remaining = Max(0, @ - dt)] : t \in timers}
  /\ burst' = IF burst.tracked THEN [burst EXCEPT !.since = Min(Debounce, @ + dt)]
               ELSE burst
  /\ lastPass' = NoPass
  /\ UNCHANGED <<sceneVars, simplifyTimeout, perfVars, keyVars>>

\* The callback given to setTimeout                  main.js:927-963 (1706-1737)
SimplifyTimerFires ==
  \E t \in timers :
    /\ t.remaining = 0
    /\ LET entries == PassEntries(t.target, originalMeshes)
           \* the iterations that call modifier.modify, each of which may throw
           calls == {i \in 1..Len(entries) :
                       /\ ~IsOriginalRatio(t.ratio)
                       /\ LET v == geomVerts[entries[i].geometry]
                          IN  ShouldModify(CountToRemove(v, t.ratio), v)}
       IN  \E throwsAt \in SUBSET calls :
             \E st \in {RunPass(entries, 1, t.ratio, throwsAt,
                                [mg |-> meshGeometry, gv |-> geomVerts,
                                 reg |-> originalMeshes, log |-> <<>>])} :
                 /\ Commit(loadedModels, st.reg, objMeshes, st.mg, st.gv, timers \ {t},
                           simplifyTimeout)
                 /\ lastPass' = [fired |-> TRUE, ratio |-> t.ratio, scope |-> t.scope,
                                 target |-> t.target, latest |-> t.id = simplifyTimeout,
                                 registry |-> originalMeshes,
                                 log |-> st.log, frames |-> Rendered(st.log)]
    /\ burst' = IF burst.tracked THEN [burst EXCEPT !.passes = Min(2, @ + 1)]
                 ELSE burst
    /\ UNCHANGED <<selectedModelIndex, scope, sliderValue, perfVars, keyVars>>

\* The browser calls animate (requestAnimationFrame or the zero-delay timer).
AnimationFrame(gaps, cpus, throws) ==
  \E dt \in gaps, cpuTime \in cpus, disjoint \in BOOLEAN, renderThrows \in throws,
     calls \in DrawCalls, tris \in Triangles :
    /\ nextFrame # <<>>
    /\ Len(queries) < MaxQueries
    /\ renderThrows => frameCount < MaxThrowFrames
    /\ (charts.created /\ ~renderThrows /\ elapsed + dt >= AggregateMs) =>
         charts.updates < MaxUpdates
    /\ animate(dt, cpuTime, disjoint, renderThrows, calls, tris)
    /\ UNCHANGED <<keyVars, sceneVars, simpVars>>

\* The GPU finishes a timer query: its result becomes available.
QueryCompletes ==
  \E i \in DOMAIN queries, ns \in GpuNanos :
    /\ ~queries[i].ready
    /\ ~queries[i].lost
    /\ queries' = [queries EXCEPT ![i].ready = TRUE, ![i].ns = ns]
    /\ lastFrame' = NoFrame
    /\ UNCHANGED <<keyVars, sceneVars, simpVars, available, activeQuery, charts, window,
                   frameCount, elapsed, unlockFPS, nextFrame, readout>>

\* The driver drops a timer query (reset, context loss): no result will come.
QueryLost ==
  \E i \in DOMAIN queries :
    /\ ~queries[i].ready
    /\ ~queries[i].lost
    /\ queries' = [queries EXCEPT ![i].lost = TRUE]
    /\ lastFrame' = NoFrame
    /\ UNCHANGED <<keyVars, sceneVars, simpVars, available, activeQuery, charts, window,
                   frameCount, elapsed, unlockFPS, nextFrame, readout>>

\* The 'Unlock FPS Limit' checkbox                         main.js:552-553
ToggleUnlockFPS ==
  /\ unlockFPS' = ~unlockFPS
  /\ lastFrame' = NoFrame
  /\ UNCHANGED <<keyVars, sceneVars, simpVars, available, queries, activeQuery, charts, window,
                 frameCount, elapsed, nextFrame, readout>>

\* One model at a time; the clock moves in steps of the debounce delay.
Next ==
  \/ LoadModel(Shapes, MaxModels, MaxMeshes)
  \/ DeleteKey
  \/ SelectModel
  \/ PointerPick
  \/ SliderInput(Percents)
  \/ ScopeChange
  \/ Tick(Debounce)
  \/ SimplifyTimerFires

Spec == Init /\ [][Next]_vars

\* Several single-mesh models loaded together.
NextScene ==
  \/ LoadModel(BurstShapes, SceneModels, SceneModels)
  \/ DeleteKey
  \/ SelectModel
  \/ PointerPick
  \/ SliderInput(BurstPercents)
  \/ ScopeChange
  \/ Tick(Debounce)
  \/ SimplifyTimerFires

SpecScene == Init /\ [][NextScene]_vars

\* Single-mesh models loaded, duplicated, deleted and simplified.
NextDuplicate ==
  \/ LoadModel(BurstShapes, BurstModels, BurstModels)
  \/ Duplicate(CopyModels)
  \/ DeleteKey
  \/ SliderInput(BurstPercents)
  \/ Tick(Debounce)
  \/ SimplifyTimerFires

SpecDuplicate == Init /\ [][NextDuplicate]_vars

\* The model list: models of one or two meshes loaded, duplicated (one copy
\* more than can be loaded), selected and deleted, no pass scheduled.
NextSelect ==
  \/ LoadModel(Shapes, SceneModels, 2 * SceneModels)
  \/ Duplicate(SceneModels + 1)
  \/ DeleteKey
  \/ SelectModel
  \/ PointerPick

SpecSelect == Init /\ [][NextSelect]_vars

\* The keyboard and the gizmo: single-mesh models loaded, selected, deleted
\* and simplified, the Alt key pressed and released, drags started and ended.
NextKeys ==
  \/ LoadModel(BurstShapes, SceneModels, SceneModels)
  \/ DeleteKey
  \/ SelectModel
  \/ SliderInput(BurstPercents)
  \/ Tick(Debounce)
  \/ SimplifyTimerFires
  \/ AltKeyDown
  \/ AltKeyUp
  \/ DragStart
  \/ DragEnd

SpecKeys == Init /\ [][NextKeys]_vars

\* The debounce: the same handlers with the clock moving in steps of TickMs,
\* on single-mesh models and the slider positions BurstPercents.
NextDebounce ==
  \/ LoadModel(BurstShapes, BurstModels, BurstModels)
  \/ DeleteKey
  \/ SelectModel
  \/ PointerPick
  \/ SliderInput(BurstPercents)
  \/ ScopeChange
  \/ Tick(TickMs)
  \/ SimplifyTimerFires

SpecDebounce == InitDebounce /\ [][NextDebounce]_vars

\* The render loop and the GPU timer.
NextTelemetry ==
  \/ AnimationFrame(FrameGaps, LoopCpuTimes, BOOLEAN)
  \/ QueryCompletes
  \/ QueryLost
  \/ ToggleUnlockFPS

SpecTelemetry == InitTelemetry /\ [][NextTelemetry]_vars

\* The aggregation and the charts: frames that render, a bounded number of
\* records.
NextCharts ==
  \/ AnimationFrame(ChartGaps, CpuTimes, {FALSE})
  \/ QueryCompletes

SpecCharts == InitCharts /\ [][NextCharts]_vars

\* The render loop in both modes: frames that render, the queries of the
\* timer completing, the 'Unlock FPS Limit' box switched at any time.
NextMode ==
  \/ AnimationFrame(FrameGaps, LoopCpuTimes, {FALSE})
  \/ QueryCompletes
  \/ ToggleUnlockFPS

SpecMode == InitTelemetry /\ [][NextMode]_vars

\* ============================================================== the claims

\* C1 (as stated): every burst of applySimplification calls made while a mesh
\* is registered, each less than 150 ms after the one before, results in
\* exactly one pass; the pass uses the ratio of the last call of the burst and
\* runs only once 150 ms have passed since that call.
C1_OnePassPerBurst ==
  /\ burst.passes <= 1
  /\ lastPass.fired => (lastPass.ratio = burst.ratio /\ burst.since >= Debounce)
  /\ (burst.open /\ burst.since >= Debounce /\ NoTimerDue) => burst.passes = 1

\* What does hold of a burst: one pass if its last call reaches setTimeout
\* (scope 'all', or scope 'current' with a model selected) and none if its last
\* call finds scope 'current' and no model selected.
OnePassPerScheduledBurst ==
  /\ burst.passes <= 1
  /\ lastPass.fired => (lastPass.ratio = burst.ratio /\ burst.since >= Debounce)
  /\ (burst.open /\ burst.since >= Debounce /\ NoTimerDue) =>
       burst.passes = (IF burst.scheduled THEN 1 ELSE 0)

\* C2: at most one simplification pass is pending at any time and it is the
\* one scheduled last; a pass that runs is the one scheduled last, so a
\* superseded request never runs.
C2_AtMostOnePending ==
  /\ Cardinality(timers) <= 1
  /\ \A t \in timers : t.id = simplifyTimeout
  /\ lastPass.fired => lastPass.latest

\* C2 witness: a call has just replaced a pending pass by a new one.
C2_Witness ==
  burst.scheduled /\ burst.since = 0 /\ \E t \in timers : t.superseding

\* The log records of the last pass.
PassLog == {lastPass.log[k] : k \in DOMAIN lastPass.log}

\* The iteration of record r left the displayed geometry as it was; the stored
\* original counts as the loader's geometry it was cloned from.
KeptDisplayed(r) ==
  r.after = r.before \/ (r.before.kind = "loaded" /\ r.after = r.original)

\* C3: a pass that runs after a model was deleted handles registered meshes
\* of loaded models only; it assigns no geometry to a mesh of a deleted model,
\* even when the call that scheduled it saw that mesh.
C3_DeletedModelUntouched ==
  lastPass.fired =>
    \A r \in PassLog :
      /\ r.mesh[1] \in 1..Len(loadedModels)
      /\ r.mesh \in {e.mesh : e \in Range(lastPass.registry)}

\* C3 witness: a pass has run on the remaining model after a model was deleted
\* while the pass was pending (the call's targetMeshes still hold its mesh).
C3_Witness ==
  /\ lastPass.fired
  /\ \E e \in Range(lastPass.target) : e.mesh[1] > Len(loadedModels)
  /\ \E r \in PassLog : ~KeptDisplayed(r)

\* C4 (as stated): a pass scheduled with scope 'current' changes the displayed
\* geometry only of meshes of the selected model (the one selected at the call
\* or the one selected when the pass runs); a pass scheduled with scope 'all'
\* processes every registered mesh.
C4_ScopeRespected ==
  lastPass.fired =>
    /\ lastPass.scope = "current" =>
         \A r \in PassLog :
           ~KeptDisplayed(r) =>
             \/ r.mesh \in {e.mesh : e \in Range(lastPass.target)}
             \/ r.mesh[1] = selectedModelIndex + 1
    /\ lastPass.scope = "all" =>
         {r.mesh : r \in PassLog} = {e.mesh : e \in Range(lastPass.registry)}

\* C5: modifier.modify is called only with a count of vertices to remove that
\* is greater than 0 and less than the vertex count of the mesh.
C5_ModifyCountInRange ==
  lastPass.fired =>
    \A r \in PassLog :
      r.branch \in {"modified", "caught"} => (0 < r.count /\ r.count < r.verts)

\* C5 witness: a pass has called the simplifier for one mesh and skipped it
\* for another.
C5_Witness ==
  /\ lastPass.fired
  /\ \E r \in PassLog : r.branch = "modified"
  /\ \E r \in PassLog : r.branch = "skipped"

\* C6 (as stated): for a mesh whose count of vertices to remove is 0 or less
\* the simplifier is not called and after the pass the mesh displays its
\* stored original geometry (or the loader's geometry the original was cloned
\* from), whatever it displayed before.
C6_NothingToRemoveShowsOriginal ==
  lastPass.fired =>
    \A r \in PassLog :
      CountToRemove(r.verts, lastPass.ratio) <= 0 =>
        /\ r.branch \notin {"modified", "caught"}
        /\ (r.after = r.original \/ r.after.kind = "loaded")

\* C7: after a pass with ratio 0 every registered mesh displays its stored
\* original geometry, and the pass has not called the simplifier.
C7_RatioZeroRestores ==
  (lastPass.fired /\ lastPass.ratio = 0) =>
    /\ \A k \in DOMAIN originalMeshes :
         meshGeometry[originalMeshes[k].mesh] = originalMeshes[k].geometry
    /\ Len(lastPass.log) = Len(originalMeshes)
    /\ \A r \in PassLog : r.branch = "original" /\ r.after = r.original

\* C7 witness: a pass with ratio 0 has run on a mesh that displayed a
\* simplified geometry.
C7_Witness ==
  /\ lastPass.fired
  /\ lastPass.ratio = 0
  /\ \E r \in PassLog : r.before.kind = "simp"

\* C8: a pass leaves the registry as it was: no entry gets another geometry
\* and the stored geometries keep their vertices, also when the simplifier
\* throws.
C8_StoredOriginalKept ==
  lastPass.fired =>
    /\ originalMeshes = lastPass.registry
    /\ \A r \in PassLog : geomVerts[r.original] = r.verts

\* C8 witness: a pass in which the simplifier returned for one mesh and threw
\* for another.
C8_Witness ==
  /\ lastPass.fired
  /\ \E r \in PassLog : r.branch = "modified"
  /\ \E r \in PassLog : r.branch = "caught"

\* C9 (as stated): a mesh for which the simplifier throws displays after the
\* pass the geometry it displayed before the pass.
C9_ThrowKeepsDisplayed ==
  lastPass.fired =>
    \A r \in PassLog : r.branch = "caught" => KeptDisplayed(r)

\* C10 (as stated): with the GPU timer available and the results of all
\* queued queries ready, the queue holds no more than QueueLimit queries.
C10_QueueBounded ==
  (available /\ \A i \in DOMAIN queries : queries[i].ready) =>
    Len(queries) <= QueueLimit

\* C11 (as stated): a query whose result never becomes available is
\* abandoned: poll finds it at the head of the queue at most PollLimit times
\* and it is then dropped from the queue.
C11_LostQueryAbandoned ==
  \A i \in DOMAIN queries : queries[i].lost => queries[i].polls <= PollLimit

\* The queue the state holds is the queue the last call of animate left:
\* the queries of lastFrame.left, in that order, with what they were.
QueueIsLeft ==
  /\ Len(queries) = Len(lastFrame.left)
  /\ \A i \in DOMAIN queries :
       LET was == lastFrame.started[lastFrame.left[i]]
       IN  /\ queries[i].ready = was.ready
           /\ queries[i].lost = was.lost
           /\ queries[i].ns = was.ns

\* C12: the queue is first in, first out. start appends the new query
\* behind the others; a call of animate removes nothing but the oldest
\* query, and removes it whenever it reports a result, so that the result
\* reported is that of the oldest query and is not reported again.
C12_FifoOrder ==
  lastFrame.fired =>
    LET started == lastFrame.started
        ids == QueryIds(started)
    IN  /\ \A i \in DOMAIN started : ids[i] = i
        /\ lastFrame.left = ids \/ (ids # <<>> /\ lastFrame.left = Tail(ids))
        /\ ~lastFrame.aggregated => lastFrame.left = ids
        /\ lastFrame.value # NoResult =>
             /\ started # <<>>
             /\ started[1].ready
             /\ lastFrame.value = {NsToMs(started[1].ns)}
             /\ lastFrame.left = Tail(ids)
        /\ QueueIsLeft

\* A result is reported while younger queries, one of them ready, wait.
C12_Witness ==
  /\ lastFrame.aggregated
  /\ lastFrame.value # NoResult
  /\ Len(queries) >= 2
  /\ \E i \in DOMAIN queries : queries[i].ready

\* C13 (as stated): start never begins a query while the query begun
\* before it is still active, whatever happened to the frame in between.
C13_OneActiveQuery ==
  lastFrame.fired => ~lastFrame.overlap

\* A queue with the same queries in the same order as another: the history
\* field polls aside.
SameQueue(qs, ps) ==
  /\ Len(qs) = Len(ps)
  /\ \A i \in DOMAIN qs : [qs[i] EXCEPT !.polls = 0] = [ps[i] EXCEPT !.polls = 0]

\* C14: an aggregation that finds the oldest query not ready reports no GPU
\* result, shows the GPU sample as unavailable and leaves the queue as
\* start left it: the same queries in the same order.
C14_NotReadyLeavesQueue ==
  (lastFrame.aggregated /\ lastFrame.started # <<>> /\ ~lastFrame.started[1].ready) =>
    /\ lastFrame.value = NoResult
    /\ readout.gpu = NoResult
    /\ readout.gpuText = "N/A"
    /\ SameQueue(queries, lastFrame.started)

\* An aggregation finds the oldest query not ready while a younger one is.
C14_Witness ==
  /\ lastFrame.aggregated
  /\ Len(lastFrame.started) >= 2
  /\ ~lastFrame.started[1].ready
  /\ lastFrame.started[2].ready

\* C15: without the timer extension the queue is empty in every state, no
\* query is ever active, every call of animate schedules the next one and
\* gets no result from poll, and every aggregation writes fps, frame time,
\* CPU time, draw calls and triangles to the panel.
C15_NoTimerDegrades ==
  ~available =>
    /\ queries = <<>>
    /\ ~activeQuery
    /\ lastFrame.fired =>
         /\ lastFrame.started = <<>>
         /\ lastFrame.value = NoResult
         /\ nextFrame \in {<<"raf">>, <<"timeout">>}
    /\ lastFrame.aggregated =>
         /\ readout.shown
         /\ readout.fps >= 1
         /\ readout.frameTime >= 1
         /\ readout.cpu \in LoopCpuTimes
         /\ readout.calls \in DrawCalls
         /\ readout.tris \in Triangles
         /\ readout.gpu = NoResult
         /\ readout.gpuText = "N/A"

\* Without the extension: an aggregation after a frame whose render failed.
C15_Witness ==
  /\ ~available
  /\ lastFrame.aggregated
  /\ lastFrame.count >= 2
  /\ lastFrame.rendered < lastFrame.count
  /\ readout.shown

C17_FrameTimeExact ==
  lastFrame.aggregated =>
    LET N == lastFrame.called
        W == lastFrame.timeDiff
    IN  /\ 2 * 1000 * N - W < 2 * readout.fps * W
        /\ 2 * readout.fps * W <= 2 * 1000 * N + W
        /\ readout.frameTime * N = 100 * W
        /\ (N = 100 /\ W = 500) => readout.fps = 200

\* C17 (amended): every aggregated record has fps = round(N * 1000 / W),
\* halves rounded up, and as its average frame time W / N rounded to the
\* nearest hundredth of a millisecond; 100 frames over 500 ms give 200.
C17_RateAndFrameTime ==
  lastFrame.aggregated =>
    LET N == lastFrame.called
        W == lastFrame.timeDiff
    IN  /\ 2 * 1000 * N - W < 2 * readout.fps * W
        /\ 2 * readout.fps * W <= 2 * 1000 * N + W
        /\ 2 * 100 * W - N < 2 * readout.frameTime * N
        /\ 2 * readout.frameTime * N <= 2 * 100 * W + N
        /\ (N = 100 /\ W = 500) => readout.fps = 200
        /\ charts.fps.label = readout.fps
        /\ charts.ms.label = readout.frameTime

\* 100 frames aggregated over 500 ms.
C17_Witness ==
  /\ lastFrame.aggregated
  /\ lastFrame.called = 100
  /\ lastFrame.timeDiff = 500
  /\ readout.fps = 200

\* C18 (as stated): the CPU time an aggregation reports is the arithmetic
\* mean of the CPU times of the frames rendered since the previous
\* aggregation: reported * frames = sum of the CPU times.
C18_CpuIsMean ==
  lastFrame.aggregated =>
    readout.cpu * lastFrame.rendered = lastFrame.cpuSum

\* The charts of the panel.
ChartNames == {"fps", "ms", "cpu", "gpu", "calls", "tris"}

\* The value the last aggregation passed to update of a chart; the GPU chart
\* is updated only with a result.
Pushed(name) ==
  CASE name = "fps" -> {readout.fps}
    [] name = "ms" -> {readout.frameTime}
    [] name = "cpu" -> {readout.cpu}
    [] name = "gpu" -> readout.gpu
    [] name = "calls" -> {readout.calls}
    [] name = "tris" -> {readout.tris}

\* C19: every chart holds exactly ChartPoints values, after its constructor
\* and after every update; an update drops the oldest value, keeps the
\* others in their order and puts the new value last; a chart that is not
\* updated keeps its values.
C19_ChartHoldsSixty ==
  charts.created =>
    /\ \A name \in ChartNames : Len(charts[name].data) = ChartPoints
    /\ lastFrame.aggregated =>
         \A name \in ChartNames :
           LET old == lastFrame.charts[name].data
               new == charts[name].data
           IN  IF Pushed(name) = {}
               THEN new = old
               ELSE /\ \A i \in 1..(ChartPoints - 1) : new[i] = old[i + 1]
                    /\ Pushed(name) = {new[ChartPoints]}

\* The second round of updates: the fps chart holds the values of two
\* aggregations behind its zeros, the GPU chart a result.
C19_Witness ==
  /\ charts.created
  /\ lastFrame.aggregated
  /\ charts.updates = 2
  /\ charts.fps.data[ChartPoints - 1] # 0
  /\ charts.fps.data[ChartPoints] # charts.fps.data[ChartPoints - 1]
  /\ charts.gpu.data[ChartPoints] # 0

\* C20 (as stated): an aggregation without a GPU result shows the GPU metric
\* as 'N/A' in the panel, and the GPU chart presents no number (no zero and
\* no value of an earlier aggregation) as the current GPU time.
C20_UnavailableShown ==
  (lastFrame.aggregated /\ lastFrame.value = NoResult) =>
    /\ readout.gpu = NoResult
    /\ readout.gpuText = "N/A"
    /\ charts.created => charts.gpu.label \notin Nat

\* C30 (as stated): the names of the loaded models are pairwise distinct.
C30_NamesDistinct ==
  \A i, j \in DOMAIN loadedModels :
    loadedModels[i].name = loadedModels[j].name => i = j

\* C29: an aggregation whose oldest query has its result available removes
\* that query and no other; poll returns the result in milliseconds (the
\* nanoseconds divided by 1,000,000) when the disjoint flag is clear and no
\* result when it is set.
C29_AvailableResultConsumed ==
  (lastFrame.aggregated /\ lastFrame.started # <<>> /\ lastFrame.started[1].ready) =>
    LET started == lastFrame.started
    IN  /\ lastFrame.left = Tail(QueryIds(started))
        /\ Len(queries) = Len(started) - 1
        /\ QueueIsLeft
        /\ IF lastFrame.disjoint
           THEN lastFrame.value = NoResult /\ readout.gpu = NoResult
           ELSE /\ \E v \in lastFrame.value :
                     lastFrame.value = {v} /\ v * 1000000 = started[1].ns
                /\ readout.gpu = lastFrame.value

\* A ready query is discarded under the disjoint flag while a younger ready
\* query stays queued.
C29_Witness ==
  /\ lastFrame.aggregated
  /\ lastFrame.disjoint
  /\ Len(lastFrame.started) >= 2
  /\ lastFrame.started[2].ready
  /\ Len(queries) = Len(lastFrame.started) - 1

\* C22 (as stated): a call of animate that runs while the frame rate is
\* capped (unlockFPS false) was scheduled with requestAnimationFrame (or is
\* the first call, made at startup), also right after the cap was switched on.
C22_CappedFramesBySync ==
  (lastFrame.fired /\ ~unlockFPS) => lastFrame.trigger \in {"raf", "direct"}

\* The inputs of a call of animate that renders.
FrameInputs ==
  [dt : FrameGaps, cpuTime : LoopCpuTimes, disjoint : BOOLEAN,
   renderThrows : {FALSE}, calls : DrawCalls, tris : Triangles]

\* C21: a step that switches between the capped and the unlocked frame rate
\* changes neither frameCount nor lastTime, nor the window, the queue, the
\* record or the charts; and for every input of the next frame, animate
\* leaves the same queue, counters, window, record and charts in the mode
\* before the switch and in the mode after it: the two modes differ in how
\* the next call is scheduled and in nothing else.
C21_ModeOnlySchedules ==
  [][ unlockFPS' # unlockFPS =>
        /\ frameCount' = frameCount
        /\ elapsed' = elapsed
        /\ window' = window
        /\ queries' = queries
        /\ readout' = readout
        /\ charts' = charts
        /\ \A in \in FrameInputs :
             \E before \in {Frame(unlockFPS, LoopState, in)},
                after \in {Frame(unlockFPS', LoopState, in)} :
               /\ before.nextFrame = <<Schedule(unlockFPS)>>
               /\ after.nextFrame = <<Schedule(unlockFPS')>>
               /\ before.nextFrame # after.nextFrame
               /\ [after EXCEPT !.nextFrame = before.nextFrame] = before
    ]_vars

\* An aggregation in a call that the zero-delay timer made, the frame rate
\* unlocked, after windows in both modes.
C21_Witness ==
  /\ unlockFPS
  /\ lastFrame.aggregated
  /\ lastFrame.trigger = "timeout"
  /\ lastFrame.count >= 2

CopyOwnsOriginals ==
  LET copy == loadedModels[Len(loadedModels)].object
  IN  \A k \in DOMAIN originalMeshes :
        originalMeshes[k].mesh \in MeshesOf(objMeshes, copy) =>
          /\ \A j \in DOMAIN originalMeshes \ {k} :
               originalMeshes[j].geometry # originalMeshes[k].geometry
          /\ \A m \in DOMAIN meshGeometry :
               meshGeometry[m] # originalMeshes[k].geometry

\* C23 (as stated): when duplicateSelectedModel returns, every entry of
\* originalMeshes for a mesh of the copy holds its own clone of the original
\* geometry, an object distinct from the geometry of the entry of the
\* original's mesh and from every geometry a mesh displays.
C23_CopyHoldsOwnClone == [][Duplicate(CopyModels) => CopyOwnsOriginals']_vars

C33_ModifyGetsStoredOriginal ==
  lastPass.fired =>
    \A r \in PassLog :
      r.branch \in {"modified", "caught"} =>
        /\ r.arg = r.original
        /\ r.arg.kind # "simp"
        /\ \E e \in Range(lastPass.registry) : e.mesh = r.mesh /\ e.geometry = r.arg
        /\ r.count = (geomVerts[r.original] * lastPass.ratio) \div 100
        /\ r.branch = "modified" =>
             geomVerts[meshGeometry[r.mesh]] = geomVerts[r.original] - r.count

\* A pass that called the simplifier for a mesh that displayed the result of
\* an earlier pass with another ratio.
C33_Witness ==
  /\ lastPass.fired
  /\ \E r \in PassLog :
       /\ r.branch = "modified"
       /\ r.before.kind = "simp"
       /\ geomVerts[meshGeometry[r.mesh]] > geomVerts[r.original] \div 2

\* C32 (as stated): a pass scheduled before a load in single mode is not
\* applied to the new model. The slider is set by the handler that schedules
\* a pass and reset to 0 by a load in single mode alone, so a pass whose ratio
\* is above the threshold while the slider stands at 0 was scheduled before
\* such a load; every mesh it handles displays its loaded geometry afterwards.
C32_StalePassSparesNewModel ==
  (lastPass.fired /\ sliderValue = 0 /\ ~IsOriginalRatio(lastPass.ratio)) =>
    \A r \in PassLog : r.after.kind = "loaded" /\ meshGeometry[r.mesh].kind = "loaded"

\* C35: after every handler selectedModelIndex is -1 or an index of
\* loadedModels (0 <= index < length), and it is -1 when no model is loaded.
C35_SelectionValid ==
  /\ selectedModelIndex = -1
       \/ (0 <= selectedModelIndex /\ selectedModelIndex < Len(loadedModels))
  /\ Len(loadedModels) = 0 => selectedModelIndex = -1

\* Two models, the second a copy, with the first selected by the list or by
\* a click after the copy had been selected.
C35_Witness ==
  /\ Len(loadedModels) = 2
  /\ loadedModels[2].name.n >= 1
  /\ loadedModels[1].name.n >= 1
  /\ selectedModelIndex = 0

\* The last n entries of originalMeshes are those of the meshes of the last
\* model, in order, each holding a geometry that no mesh displays and no
\* other entry holds.
NewModelRegistered(n) ==
  LET new == loadedModels[Len(loadedModels)].object
      from == Len(originalMeshes) - n + 1
      entries == SubSeq(originalMeshes, from, Len(originalMeshes))
  IN  /\ [k \in DOMAIN entries |-> entries[k].mesh] = objMeshes[new]
      /\ \A k \in from..Len(originalMeshes) :
           /\ \A m \in DOMAIN meshGeometry :
                meshGeometry[m] # originalMeshes[k].geometry
           /\ \A j \in DOMAIN originalMeshes \ {k} :
                originalMeshes[j].geometry # originalMeshes[k].geometry
           /\ meshGeometry[originalMeshes[k].mesh].kind = "loaded"

\* C38: when onModelLoaded returns, in single mode loadedModels holds the new
\* model alone and originalMeshes the entries of its meshes alone; in append
\* mode the models and entries there were are kept, unchanged and in order,
\* every mesh displays what it displayed, and the new model is last; in both
\* modes the new model is the selected one and each of its stored originals
\* is an object of its own, distinct from the geometry the mesh displays.
C38_LoadFrame ==
  [][ \A shape \in BurstShapes, base \in ModelNames :
        /\ onModelLoaded(shape, [base |-> base, n |-> 0], FALSE) =>
             /\ Len(loadedModels') = 1
             /\ Len(originalMeshes') = Len(shape)
             /\ selectedModelIndex' = 0
             /\ NewModelRegistered(Len(shape))'
        /\ onModelLoaded(shape, [base |-> base, n |-> 0], TRUE) =>
             /\ Len(loadedModels') = Len(loadedModels) + 1
             /\ SubSeq(loadedModels', 1, Len(loadedModels)) = loadedModels
             /\ Len(originalMeshes') = Len(originalMeshes) + Len(shape)
             /\ SubSeq(originalMeshes', 1, Len(originalMeshes)) = originalMeshes
             /\ \A i \in DOMAIN loadedModels :
                  \A m \in MeshesOf(objMeshes, loadedModels[i].object) :
                    meshGeometry'[m] = meshGeometry[m]
             /\ selectedModelIndex' = Len(loadedModels)
             /\ NewModelRegistered(Len(shape))'
    ]_vars

\* Two models of which the first displays a geometry a pass made and the
\* second, selected, the geometry it was loaded with: a model appended after
\* a pass.
C38_Witness ==
  /\ Len(loadedModels) = 2
  /\ selectedModelIndex = 1
  /\ Len(originalMeshes) = 2
  /\ meshGeometry[originalMeshes[1].mesh].kind = "simp"
  /\ meshGeometry[originalMeshes[2].mesh].kind = "loaded"
  /\ sliderValue # 0
  /\ timers = {}

\* C36: deleteSelectedModel with no model selected changes nothing; with a
\* model selected it removes that model from loadedModels and the entries of
\* its meshes from originalMeshes and nothing else: the other models keep
\* their order and names, their entries their order, mesh and stored
\* geometry, and their meshes the geometry they display. (A model is named in
\* the state by its position in loadedModels, so the models after the removed
\* one move down by one, their meshes and geometries with them.)
C36_DeleteFrame ==
  [][ DeleteKey =>
        IF selectedModelIndex = -1
        THEN UNCHANGED <<loadedModels, originalMeshes, objMeshes, meshGeometry,
                         geomVerts, selectedModelIndex>>
        ELSE
          LET k == selectedModelIndex + 1
              removed == loadedModels[k].object
              sh(o) == IF o < removed THEN o ELSE o - 1
              rm(m) == <<sh(m[1]), m[2]>>
              rg(g) == [g EXCEPT !.mesh = rm(g.mesh)]
              old(i) == IF i < k THEN i ELSE i + 1
              kept == SelectSeq(originalMeshes, LAMBDA e : e.mesh[1] # removed)
          IN  /\ Len(loadedModels') = Len(loadedModels) - 1
              /\ \A i \in DOMAIN loadedModels' :
                   /\ loadedModels'[i].name = loadedModels[old(i)].name
                   /\ loadedModels'[i].object = sh(loadedModels[old(i)].object)
                   /\ objMeshes'[loadedModels'[i].object] =
                        [j \in DOMAIN objMeshes[loadedModels[old(i)].object] |->
                           rm(objMeshes[loadedModels[old(i)].object][j])]
                   /\ \A m \in MeshesOf(objMeshes, loadedModels[old(i)].object) :
                        /\ meshGeometry'[rm(m)] = rg(meshGeometry[m])
                        /\ geomVerts'[meshGeometry'[rm(m)]] = geomVerts[meshGeometry[m]]
              /\ originalMeshes' =
                   [j \in DOMAIN kept |->
                      [mesh |-> rm(kept[j].mesh), geometry |-> rg(kept[j].geometry)]]
    ]_vars

\* One of two models left after the other was deleted while a pass was
\* pending: the timer still holds the entry of a mesh that is registered no
\* more, and the slider stands where the request left it (a load in single
\* mode would have reset it).
C36_Witness ==
  /\ Len(loadedModels) = 1
  /\ Len(originalMeshes) = 1
  /\ sliderValue = 50
  /\ \E t \in timers :
       /\ Len(t.target) = 2
       /\ \E e \in Range(t.target) :
            e.mesh \notin {x.mesh : x \in Range(originalMeshes)}

\* The geometries that the models other than the one at position k display
\* or have stored in their entries of originalMeshes.
ReferencedByOthers(k) ==
  LET others == UNION {MeshesOf(objMeshes, loadedModels[i].object) :
                         i \in DOMAIN loadedModels \ {k}}
  IN  {meshGeometry[m] : m \in others}
        \cup {e.geometry : e \in {x \in Range(originalMeshes) : x.mesh \in others}}

\* C37 (as stated): a deletion disposes no geometry that a mesh of a model
\* that stays loaded displays, or that an entry of such a mesh has stored.
C37_DeleteDisposesUnshared ==
  [][ (DeleteKey /\ selectedModelIndex # -1) =>
        DisposedGeometries(objMeshes, meshGeometry,
                           loadedModels[selectedModelIndex + 1].object)
          \cap ReferencedByOthers(selectedModelIndex + 1) = {}
    ]_vars

\* C31 (as stated): isAltDown is true exactly while the Alt key is down, and
\* a drag of the gizmo that starts with the Alt key down and a model selected
\* adds one model to loadedModels, a copy of the selected one.
C31_AltDragDuplicates ==
  [][ /\ isAltDown' = altHeld'
      /\ (DragStart /\ altHeld /\ selectedModelIndex # -1) =>
           /\ Len(loadedModels') = Len(loadedModels) + 1
           /\ loadedModels'[Len(loadedModels')].name.n >= 1
    ]_vars

\* C34: at every moment after startup exactly one call of animate is
\* scheduled: after a call of animate, whether its render completed or
\* threw, that is the one call the call itself scheduled, with setTimeout
\* when unlockFPS was true and with requestAnimationFrame otherwise, and a
\* switch of the mode neither adds a scheduled call nor removes one. The loop
\* neither stops nor multiplies.
C34_OneCallScheduled ==
  /\ Len(nextFrame) = 1
  /\ lastFrame.fired => nextFrame = <<Schedule(unlockFPS)>>
  /\ ~lastFrame.fired => nextFrame[1] \in {"direct", "raf", "timeout"}

\* A call of animate that the animation-frame callback made after the mode
\* was switched to unlocked, whose render threw: one zero-delay timer is
\* scheduled.
C34_Witness ==
  /\ lastFrame.fired
  /\ lastFrame.failed
  /\ lastFrame.trigger = "raf"
  /\ unlockFPS
  /\ nextFrame = <<"timeout">>

====
